---- MODULE Spec2Model ----
(***************************************************************************)
(* DocRAG: retrieval-index cache, fingerprinting, query-answer cache and   *)
(* the bounded-concurrency batch executor.                                 *)
(*                                                                         *)
(* Strings are sequences of tokens.  In a locator the token "h"            *)
(* abbreviates the scheme and host ("http://host"), "d" the upload         *)
(* directory name ("data"), "a" and "b" a file name with its extension     *)
(* ("a.pdf"); in a question a token of letters is that word  *)
(* written out, and no word used holds a classifier keyword inside a       *)
(* longer word; a space, a "?" and a "," are tokens of their own.  A       *)
(* digest (sha256 / md5 hexdigest) is the digested string behind the       *)
(* marker "#": an injective function of its input, as a collision-free     *)
(* hash is.                                                                *)
(***************************************************************************)
EXTENDS Integers, Sequences, FiniteSets, TLC

VARIABLES
    \* ---- api.py -------------------------------------------------------
    FAISS_CACHE,      \* api.FAISS_CACHE: fingerprint -> index handle
    cache_hits,       \* perf_mon.cache_hits
    total_requests,   \* perf_mon.total_requests
    builds,           \* number of FAISS.from_documents calls made so far
    resolved,         \* fingerprints a get_retriever call has succeeded for
    lastCall,         \* what the latest get_retriever call did
    calls,            \* number of get_retriever calls made so far
    apiDir,           \* the indexes saved under api.FAISS_DIR: name -> handle
    up,               \* the api.py process is running (module imported)
    loadFailed,       \* names preload_faiss failed to load at the last start
    resolvedBefore,   \* fingerprints resolved in an earlier process run
    restarts,         \* number of process exits so far
    \* ---- rag_logic.py -------------------------------------------------
    query_cache,      \* query_cache.cache: key -> answer
    hit_count,        \* query_cache.hit_count
    total_queries,    \* query_cache.total_queries
    chainCalls,       \* key -> number of self.chain.invoke / ainvoke calls
    answered,         \* keys a CachedRAGChain call has returned an answer for
    caller,           \* the caller of CachedRAGChain.invoke / ainvoke
    lastInvoke,       \* what the latest invoke / ainvoke call did
    invokes,          \* number of invoke / ainvoke calls made so far
    \* ---- api.py process_claims, one entry per request ------------------
    questions,        \* req.questions
    rag,              \* "chain" or "None": what create_rag_chain returned
    sem,              \* free slots of the request's asyncio.Semaphore
    pc,               \* per question: where its _answer task is
    res,              \* per question: what its _answer task returned
    batchState,       \* "idle", "running", "returned" or "raised"
    answers,          \* HackRxResponse.answers
    \* ---- flask_app.py -------------------------------------------------
    flaskCache,       \* flask_app.FAISS_CACHE: key -> index handle
    faissDir,         \* the indexes saved under FAISS_DIR: name -> handle
    fl,               \* per server thread: its build_faiss_for_urls call
    flaskBuilds,      \* number of FAISS.from_documents calls made so far
    flaskBuiltFor,    \* lookup keys of the calls that built an index
    flaskCalls,       \* number of build_faiss_for_urls calls made so far
    \* ---- fingerprint as a pure function -------------------------------
    fpList, fpOther, fpA, fpB, fpDone,
    \* ---- classify_question_complexity on one bounded input -------------
    clsQuestion,      \* the question passed in
    clsScore,         \* complexity_score at the final test
    clsTier,          \* the value returned
    clsDone,          \* the call has returned
    \* ---- history ------------------------------------------------------
    storedBy,         \* cache key -> the requests whose task stored under it
    crossLog,         \* the tasks begun on a key another request stored
    twin              \* the latest wrapper call under invoke and ainvoke

apiVars == <<FAISS_CACHE, cache_hits, total_requests, builds, resolved,
             lastCall, calls>>
fpVars  == <<fpList, fpOther, fpA, fpB, fpDone>>
clsVars == <<clsQuestion, clsScore, clsTier, clsDone>>
histVars == <<storedBy, crossLog, twin>>
qcVars  == <<query_cache, hit_count, total_queries, chainCalls, answered>>
callVars == <<caller, lastInvoke, invokes>>
batchVars == <<questions, rag, sem, pc, res, batchState, answers>>
flaskVars == <<flaskCache, faissDir, fl, flaskBuilds, flaskBuiltFor,
               flaskCalls>>
diskVars == <<apiDir, up, loadFailed, resolvedBefore, restarts>>
vars    == <<apiVars, fpVars, qcVars, callVars, batchVars, flaskVars,
             diskVars, clsVars, histVars>>

----------------------------------------------------------------------------
\* Bounds

MaxUrls  == 2      \* longest locator list of a request
MaxCalls == 3      \* get_retriever calls in one process run
MaxInvokes == 3    \* invoke / ainvoke calls in one process run
MaxQuestions == 4  \* longest question list of a request
MaxFlaskCalls == 3 \* build_faiss_for_urls calls in one process run
MaxRestarts == 1   \* exits of the api.py process
MaxSharedQuestions == 2 \* questions in each of two requests
MaxPhrases == 3    \* phrases in a question given to the classifier

----------------------------------------------------------------------------
\* Strings

\* code point order of the tokens, as Python compares str
CharOrd(c) ==
    CASE c = " " -> 32
      [] c = "#" -> 35
      [] c = "/" -> 47
      [] c = "Q" -> 81
      [] c = "R" -> 82
      [] c = "a" -> 97
      [] c = "b" -> 98
      [] c = "d" -> 100
      [] c = "h" -> 104
      [] c = "q" -> 113
      [] c = "r" -> 114
      [] OTHER   -> 120

RECURSIVE StrLess(_, _)
\* s < t for Python str: lexicographic by code point, a proper prefix first
StrLess(s, t) ==
    IF t = <<>> THEN FALSE
    ELSE IF s = <<>> THEN TRUE
    ELSE IF Head(s) = Head(t) THEN StrLess(Tail(s), Tail(t))
    ELSE CharOrd(Head(s)) < CharOrd(Head(t))

RECURSIVE InsertSorted(_, _)
InsertSorted(x, l) ==
    IF l = <<>> THEN <<x>>
    ELSE IF StrLess(x, Head(l)) THEN <<x>> \o l
    ELSE <<Head(l)>> \o InsertSorted(x, Tail(l))

\* the list as given: what the key would be built from without sorted()
NoSort(l) == l

RECURSIVE sorted(_)
\* sorted(urls): ascending, duplicates kept
sorted(l) ==
    IF l = <<>> THEN <<>>
    ELSE InsertSorted(Head(l), sorted(Tail(l)))

RECURSIVE Join(_)
\* "".join(l)
Join(l) == IF l = <<>> THEN <<>> ELSE Head(l) \o Join(Tail(l))

\* hashlib.sha256(s.encode()).hexdigest()
Sha256Hex(s) == <<"#">> \o s

\* url_hash = hashlib.sha256("".join(sorted(urls)).encode()).hexdigest()
Fingerprint(urls) == Sha256Hex(Join(sorted(urls)))

----------------------------------------------------------------------------
\* Inputs

U1 == <<"h", "/", "a">>
U2 == <<"h", "/", "b">>
U3 == <<"h", "/", "a", "b">>
U4 == U1 \o U2   \* one locator spelled as U1 followed by U2
LocatorPool == {U1, U2, U3, U4}

\* the locators requests are made of
ReqLocators == {U1, U2}

\* every list of 0..n locators of the set pool
ListsOver(pool, n) == UNION { [1..k -> pool] : k \in 0..n }

IsPermutation(l, m) ==
    /\ Len(l) = Len(m)
    /\ \E p \in [1..Len(l) -> 1..Len(l)] :
          /\ \A i, j \in 1..Len(l) : i # j => p[i] # p[j]
          /\ \A i \in 1..Len(l) : m[i] = l[p[i]]

\* request.documents: None, a str, or a list of str.  val holds the list,
\* or the one string of a str
DocNone     == [kind |-> "none", val |-> <<>>]
DocStr(s)   == [kind |-> "str",  val |-> <<s>>]
DocList(l)  == [kind |-> "list", val |-> l]
DocInputs   ==
    {DocNone, DocStr(<<>>)} \cup {DocStr(u) : u \in {U1, U2}}
        \cup {DocList(l) : l \in ListsOver(ReqLocators, MaxUrls)}

\* `request_docs is None` in place of `not request_docs`
FalsyNoneOnly(d) == d.kind = "none"

\* `not request_docs`
Falsy(d) ==
    \/ d.kind = "none"
    \/ d.kind = "str"  /\ d.val[1] = <<>>
    \/ d.kind = "list" /\ d.val = <<>>

\* urls = request_docs if isinstance(request_docs, list) else [request_docs]
UrlsOf(d) == d.val

Tiers == {"simple", "medium", "complex", "other"}

----------------------------------------------------------------------------
\* api.py: the index cache

NoHandle == [id |-> 0, docs |-> {}]

NoCall ==
    [docs |-> DocNone, tier |-> "medium", path |-> "none", fp |-> <<>>,
     prior |-> FALSE, consulted |-> FALSE, ingestCalls |-> 0,
     embedCalls |-> 0, handle |-> NoHandle, k |-> 0, rerank |-> FALSE,
     hitsBefore |-> 0, cacheBefore |-> <<>>, yielded |-> {}]

NoInvoke ==
    [q |-> <<>>, mode |-> "invoke", prior |-> FALSE, found |-> FALSE,
     stored |-> <<>>, chainInvoked |-> FALSE, answer |-> <<>>,
     outcome |-> "none"]

\* line 151: k = {"simple": 6, "medium": 8, "complex": 10}.get(complexity, 8)
KOfPersistent(complexity) ==
    CASE complexity = "simple"  -> 6
      [] complexity = "medium"  -> 8
      [] complexity = "complex" -> 10
      [] OTHER                  -> 8

\* a table whose fallback is the smallest k
KOfFallbackSimple(complexity) ==
    CASE complexity = "simple"  -> 6
      [] complexity = "medium"  -> 8
      [] complexity = "complex" -> 10
      [] OTHER                  -> 6

\* line 200: k = {"simple": 6, "medium": 8, "complex": 10}.get(complexity, 8)
KOf(complexity) ==
    CASE complexity = "simple"  -> 6
      [] complexity = "medium"  -> 8
      [] complexity = "complex" -> 10
      [] OTHER                  -> 8

\* the store at line 198 left out
CacheStoreDropped(cache, key, h) == cache

\* the index stored under the fingerprint of a locator it holds documents
\* of
CacheStoreByContent(cache, key, h) ==
    LET k == Fingerprint(<<CHOOSE u \in h.docs : TRUE>>) IN
    [x \in DOMAIN cache \cup {k} |-> IF x = k THEN h ELSE cache[x]]

\* FAISS_CACHE[url_hash] = vec_store
CacheStore(cache, key, h) ==
    [x \in DOMAIN cache \cup {key} |-> IF x = key THEN h ELSE cache[x]]

\* an empty entry left under the key of a resolve that fails
CacheOnRaiseStoresEmpty(cache, key) ==
    [x \in DOMAIN cache \cup {key} |-> IF x = key THEN NoHandle ELSE cache[x]]

\* lines 192-197: the raise leaves get_retriever before line 198
CacheOnRaise(cache, key) == cache

\* the loop stopped by the first locator that fails
ExtractedUntilFailure(urls, ok) ==
    {urls[i] : i \in {j \in ok : \A m \in 1..j : m \in ok}}

\* lines 163-190: all_docs after the loop, when the locators at the
\* positions ok yield documents and the others raise or yield none; a
\* document is named by its locator
Extracted(urls, ok) == {urls[i] : i \in ok}

\* the fields every branch of get_retriever records
CallBase(d, tier) ==
    [NoCall EXCEPT !.docs = d, !.tier = tier,
                   !.hitsBefore = cache_hits, !.cacheBefore = FAISS_CACHE]

\* lines 149-152: empty or absent document set -> persistent store
GetRetrieverPinecone(d, tier) ==
    /\ Falsy(d)
    /\ lastCall' = [CallBase(d, tier) EXCEPT !.path = "pinecone",
                                              !.k = KOfPersistent(tier)]
    /\ UNCHANGED <<FAISS_CACHE, cache_hits, builds, resolved>>

\* lines 157-160: cache hit
GetRetrieverHit(d, tier) ==
    /\ ~Falsy(d)
    /\ LET fp == Fingerprint(UrlsOf(d)) IN
        /\ fp \in DOMAIN FAISS_CACHE
        /\ cache_hits' = cache_hits + 1
        /\ lastCall' = [CallBase(d, tier) EXCEPT
                           !.path = "hit", !.fp = fp, !.consulted = TRUE,
                           !.prior = (fp \in resolved),
                           !.handle = FAISS_CACHE[fp],
                           !.k = KOf(tier),
                           !.rerank = (tier = "complex")]
        /\ resolved' = resolved \cup {fp}
    /\ UNCHANGED <<FAISS_CACHE, builds>>

\* lines 161-193: cache miss, no locator yields a document -> HTTP 500
GetRetrieverNoDocs(d, tier, ok) ==
    /\ ~Falsy(d)
    /\ Extracted(UrlsOf(d), ok) = {}
    /\ LET fp == Fingerprint(UrlsOf(d)) IN
        /\ fp \notin DOMAIN FAISS_CACHE
        /\ lastCall' = [CallBase(d, tier) EXCEPT
                           !.path = "ingestion_error", !.fp = fp,
                           !.consulted = TRUE, !.prior = (fp \in resolved),
                           !.ingestCalls = Len(UrlsOf(d)),
                           !.yielded = ok]
        /\ FAISS_CACHE' = CacheOnRaise(FAISS_CACHE, fp)
    /\ UNCHANGED <<cache_hits, builds, resolved>>

\* lines 161-197: cache miss, documents extracted, FAISS.from_documents raises
GetRetrieverBuildFails(d, tier, ok) ==
    /\ ~Falsy(d)
    /\ Extracted(UrlsOf(d), ok) # {}
    /\ LET fp == Fingerprint(UrlsOf(d)) IN
        /\ fp \notin DOMAIN FAISS_CACHE
        /\ lastCall' = [CallBase(d, tier) EXCEPT
                           !.path = "build_error", !.fp = fp,
                           !.consulted = TRUE, !.prior = (fp \in resolved),
                           !.ingestCalls = Len(UrlsOf(d)),
                           !.embedCalls = 1, !.yielded = ok]
        /\ FAISS_CACHE' = CacheOnRaise(FAISS_CACHE, fp)
    /\ UNCHANGED <<cache_hits, builds, resolved>>

\* lines 161-207: cache miss, the locators at the positions ok yield documents
GetRetrieverBuild(d, tier, ok) ==
    /\ ~Falsy(d)
    /\ Extracted(UrlsOf(d), ok) # {}
    /\ LET urls == UrlsOf(d)
           fp   == Fingerprint(urls)
           h    == [id |-> builds + 1, docs |-> Extracted(urls, ok)]
       IN
        /\ fp \notin DOMAIN FAISS_CACHE
        /\ builds' = builds + 1
        /\ FAISS_CACHE' = CacheStore(FAISS_CACHE, fp, h)
        /\ lastCall' = [CallBase(d, tier) EXCEPT
                           !.path = "built", !.fp = fp, !.consulted = TRUE,
                           !.prior = (fp \in resolved),
                           !.ingestCalls = Len(urls), !.embedCalls = 1,
                           !.yielded = ok, !.k = KOf(tier),
                           !.handle = h, !.rerank = (tier = "complex")]
        /\ resolved' = resolved \cup {fp}
    /\ UNCHANGED cache_hits

\* def get_retriever(request_docs, complexity)
GetRetriever(d, tier) ==
    \/ GetRetrieverPinecone(d, tier)
    \/ GetRetrieverHit(d, tier)
    \/ \E ok \in SUBSET (1..Len(UrlsOf(d))) :
          \/ GetRetrieverNoDocs(d, tier, ok)
          \/ GetRetrieverBuildFails(d, tier, ok)
          \/ GetRetrieverBuild(d, tier, ok)

\* one resolve of the index cache
Resolve ==
    /\ up
    /\ calls < MaxCalls
    /\ calls' = calls + 1
    /\ \E d \in DocInputs, tier \in Tiers : GetRetriever(d, tier)
    /\ UNCHANGED <<total_requests, fpVars, qcVars, callVars, batchVars, flaskVars, diskVars, clsVars, histVars>>

\* the module as imported with nothing in FAISS_DIR to preload
InitApi ==
    /\ FAISS_CACHE = <<>>
    /\ cache_hits = 0
    /\ total_requests = 0
    /\ builds = 0
    /\ resolved = {}
    /\ lastCall = NoCall
    /\ calls = 0

\* api.py imported with no FAISS_DIR
InitDiskIdle ==
    /\ apiDir = <<>>
    /\ up = TRUE
    /\ loadFailed = {}
    /\ resolvedBefore = {}
    /\ restarts = 0

\* no wrapper call made
NoTwin == [mode |-> "none", q |-> <<>>, mine |-> <<>>, other |-> <<>>]

\* nothing recorded
InitHistIdle ==
    /\ storedBy = <<>>
    /\ crossLog = {}
    /\ twin = NoTwin

\* the classifier not called
InitClsIdle ==
    /\ clsQuestion = <<>>
    /\ clsScore = 0
    /\ clsTier = "none"
    /\ clsDone = FALSE

\* ---- api.py process lifecycle: import, requests, exit --------------------

\* a mapping cut down to the names in S
Restrict(f, S) == IF S = {} THEN <<>> ELSE [n \in S |-> f[n]]

\* a preload that gives up at the first entry that fails to load
PreloadAbortOnFailure(dir, bad) ==
    IF bad = {} THEN Restrict(dir, DOMAIN dir) ELSE <<>>

\* preload_faiss: FAISS_CACHE after the loop over os.listdir(FAISS_DIR),
\* when FAISS.load_local raises for the names in bad; a missing FAISS_DIR
\* is a directory with no entry
PreloadResult(dir, bad) == Restrict(dir, DOMAIN dir \ bad)

\* what utils/faiss_index_generator.py saved for the URLs of S: the index
\* of each under hashlib.sha256(url.encode('utf-8')).hexdigest()
GeneratedDir(S) ==
    Restrict([n \in {Sha256Hex(u) : u \in S} |->
                 [id |-> 0, docs |-> {u \in S : Sha256Hex(u) = n}]],
             {Sha256Hex(u) : u \in S})

\* FAISS_DIR when api.py is imported: what the generator saved for some of
\* the locators
ApiDirs == {GeneratedDir(S) : S \in SUBSET ReqLocators}

\* the fingerprints in FAISS_CACHE that preload_faiss did not put there
BuiltThisRun == DOMAIN FAISS_CACHE \ (DOMAIN apiDir \ loadFailed)

\* import of api.py: module globals initialised, preload_faiss() at line 144
Startup ==
    /\ ~up
    /\ up' = TRUE
    /\ \E bad \in SUBSET (DOMAIN apiDir) :
          /\ FAISS_CACHE' = PreloadResult(apiDir, bad)
          /\ loadFailed' = bad
    /\ cache_hits' = 0
    /\ total_requests' = 0
    /\ lastCall' = NoCall
    /\ resolved' = {}
    /\ UNCHANGED <<builds, calls, apiDir, resolvedBefore, restarts>>
    /\ UNCHANGED <<fpVars, qcVars, callVars, batchVars, flaskVars, clsVars, histVars>>

\* the document sets requested of the running process
LifecycleDocs ==
    {DocNone} \cup {DocStr(u) : u \in ReqLocators}
              \cup {DocList(<<U2>>), DocList(<<U1, U2>>)}

\* a request of the running process reaches get_retriever with the tier
\* process_claims passes
LifecycleResolve ==
    /\ up
    /\ calls < MaxCalls
    /\ calls' = calls + 1
    /\ \E d \in LifecycleDocs : GetRetriever(d, "medium")
    /\ UNCHANGED <<total_requests, fpVars, qcVars, callVars, batchVars, flaskVars, diskVars, clsVars, histVars>>

\* the process exits: everything held in memory is lost, FAISS_DIR stays
Shutdown ==
    /\ up
    /\ restarts < MaxRestarts
    /\ restarts' = restarts + 1
    /\ up' = FALSE
    /\ resolvedBefore' = resolvedBefore \cup BuiltThisRun
    /\ FAISS_CACHE' = <<>>
    /\ loadFailed' = {}
    /\ cache_hits' = 0
    /\ total_requests' = 0
    /\ lastCall' = NoCall
    /\ resolved' = {}
    /\ UNCHANGED <<builds, calls, apiDir>>
    /\ UNCHANGED <<fpVars, qcVars, callVars, batchVars, flaskVars, clsVars, histVars>>

\* api.py not yet imported, FAISS_DIR as the generator left it
InitDiskCold ==
    /\ apiDir \in ApiDirs
    /\ up = FALSE
    /\ loadFailed = {}
    /\ resolvedBefore = {}
    /\ restarts = 0

InitFpIdle ==
    /\ fpList = <<>>
    /\ fpOther = <<>>
    /\ fpA = <<>>
    /\ fpB = <<>>
    /\ fpDone = FALSE



----------------------------------------------------------------------------
\* rag_logic.py: the query-answer cache and the caching wrapper

\* str.lower() on one token
LowerChar(c) ==
    CASE c = "Q" -> "q"
      [] c = "R" -> "r"
      [] c = "Compare" -> "compare"
      [] OTHER   -> c

\* query.lower()
lower(s) == [i \in 1..Len(s) |-> LowerChar(s[i])]

IsSpace(c) == c \in {" ", "\n"}

RECURSIVE lstrip(_)
lstrip(s) ==
    IF s # <<>> /\ IsSpace(Head(s)) THEN lstrip(Tail(s)) ELSE s

RECURSIVE rstrip(_)
rstrip(s) ==
    IF s # <<>> /\ IsSpace(s[Len(s)]) THEN rstrip(SubSeq(s, 1, Len(s) - 1))
    ELSE s

\* query.strip()
strip(s) == rstrip(lstrip(s))

\* hashlib.md5(s.encode()).hexdigest()
Md5Hex(s) == <<"#">> \o s

\* a key over the question as given
get_cache_key_raw(query) == Md5Hex(query)

\* QueryCache.get_cache_key
get_cache_key(query) == Md5Hex(lower(strip(query)))

\* the value QueryCache.get returns (found = FALSE stands for None)
CacheLookup(cache, query) ==
    LET key == get_cache_key(query) IN
    IF key \in DOMAIN cache THEN [found |-> TRUE, val |-> cache[key]]
    ELSE [found |-> FALSE, val |-> <<>>]

\* `if cached_response:` -- None and the empty string are both false
Truthy(c) == c.found /\ c.val # <<>>

\* QueryCache.set
CacheSet(cache, query, response) ==
    LET key == get_cache_key(query) IN
    [x \in DOMAIN cache \cup {key} |-> IF x = key THEN response ELSE cache[x]]

\* Tokens of an answer: a whole "<think>...</think>" block, a sentence one of
\* the verbose patterns matches, an intro prefix ("Answer:", "Response:",
\* "**Answer:**", ...), white space, and other text.
ThinkBlock  == "<think>"
VerboseText == "Let me check."
IntroText   == "Answer:"

\* clean_answer
clean_answer(answer) ==
    IF answer = <<>> THEN answer
    ELSE LET noThink   == SelectSeq(answer, LAMBDA t : t # ThinkBlock)
             noVerbose == SelectSeq(noThink, LAMBDA t : t # VerboseText)
             stripped  == strip(noVerbose)
             noIntro   == IF stripped # <<>> /\ Head(stripped) = IntroText
                          THEN lstrip(Tail(stripped))
                          ELSE stripped
         IN strip(noIntro)

Count(f, k) == IF k \in DOMAIN f THEN f[k] ELSE 0

Bump(f, k) == [x \in DOMAIN f \cup {k} |-> IF x = k THEN Count(f, k) + 1 ELSE f[x]]

\* what the synthesis chain can answer to a question: text about the
\* question behind an intro, or nothing but a reasoning block
RawAnswersFor(q) ==
    { <<IntroText, " ">> \o lower(strip(q)), <<ThinkBlock>> }

\* every answer text the wrapper can hand out for a question
AnswersFor(q) == { clean_answer(r) : r \in RawAnswersFor(q) }

\* query_cache.get(query): the counters
QueryCacheGetCounts(q) ==
    /\ total_queries' = total_queries + 1
    /\ hit_count' = IF CacheLookup(query_cache, q).found
                    THEN hit_count + 1 ELSE hit_count

\* lines 112-123 / 141-152: the lookup answers the call
WrapperHit(q) ==
    /\ Truthy(CacheLookup(query_cache, q))
    /\ QueryCacheGetCounts(q)
    /\ answered' = answered \cup {get_cache_key(q)}
    /\ UNCHANGED <<query_cache, chainCalls>>

\* lines 112-127 / 141-156: the lookup does not answer, the chain is called
WrapperMiss(q) ==
    /\ ~Truthy(CacheLookup(query_cache, q))
    /\ QueryCacheGetCounts(q)
    /\ chainCalls' = Bump(chainCalls, get_cache_key(q))
    /\ UNCHANGED <<query_cache, answered>>

\* lines 130-139 / 159-168: the chain returned raw
WrapperStore(q, raw) ==
    /\ query_cache' = CacheSet(query_cache, q, clean_answer(raw))
    /\ answered' = answered \cup {get_cache_key(q)}
    /\ UNCHANGED <<hit_count, total_queries, chainCalls>>

InitQueryCache ==
    /\ query_cache = <<>>
    /\ hit_count = 0
    /\ total_queries = 0
    /\ chainCalls = <<>>
    /\ answered = {}
    /\ caller = [state |-> "idle", q |-> <<>>, mode |-> "invoke"]
    /\ lastInvoke = NoInvoke
    /\ invokes = 0

----------------------------------------------------------------------------
\* CachedRAGChain.invoke and ainvoke called one after the other

Q1 == <<"q">>
Q2 == <<" ", "Q">>
Q3 == <<"when">>
QuestionPool == {Q1, Q2, Q3}

\* invoke / ainvoke up to the cache answer or the chain call
CallBegin(mode, q) ==
    /\ caller.state = "idle"
    /\ invokes < MaxInvokes
    /\ invokes' = invokes + 1
    /\ LET c    == CacheLookup(query_cache, q)
           base == [NoInvoke EXCEPT !.q = q, !.mode = mode,
                                    !.prior = (get_cache_key(q) \in answered),
                                    !.found = c.found, !.stored = c.val]
       IN
        \/ /\ WrapperHit(q)
           /\ lastInvoke' = [base EXCEPT !.outcome = "hit", !.answer = c.val]
           /\ UNCHANGED caller
        \/ /\ WrapperMiss(q)
           /\ lastInvoke' = [base EXCEPT !.outcome = "awaiting",
                                         !.chainInvoked = TRUE]
           /\ caller' = [state |-> "awaiting", q |-> q, mode |-> mode]
    /\ UNCHANGED <<apiVars, fpVars, batchVars, flaskVars, diskVars, clsVars, histVars>>

\* def invoke(self, inputs)
Invoke(q) == CallBegin("invoke", q)

\* async def ainvoke(self, inputs)
Ainvoke(q) == CallBegin("ainvoke", q)

\* self.chain.invoke / ainvoke returns
CallEnd(raw) ==
    /\ caller.state = "awaiting"
    /\ raw \in RawAnswersFor(caller.q)
    /\ WrapperStore(caller.q, raw)
    /\ lastInvoke' = [lastInvoke EXCEPT !.outcome = "computed",
                                        !.answer = clean_answer(raw)]
    /\ caller' = [caller EXCEPT !.state = "idle"]
    /\ UNCHANGED <<invokes, apiVars, fpVars, batchVars, flaskVars, diskVars, clsVars, histVars>>

\* self.chain.invoke / ainvoke raises
CallRaise ==
    /\ caller.state = "awaiting"
    /\ lastInvoke' = [lastInvoke EXCEPT !.outcome = "raised"]
    /\ caller' = [caller EXCEPT !.state = "idle"]
    /\ UNCHANGED <<invokes, qcVars, apiVars, fpVars, batchVars, flaskVars, diskVars, clsVars, histVars>>


\* ---- invoke and ainvoke as functions of the cache state ----------------

\* the state of the global query_cache with the count of chain invocations
QcState ==
    [cache |-> query_cache, hit_count |-> hit_count,
     total_queries |-> total_queries, chainCalls |-> chainCalls]

\* what self.chain.invoke / ainvoke can do for a question
ChainOutcomes(q) ==
    {[kind |-> "return", raw |-> r] : r \in RawAnswersFor(q)}
        \cup {[kind |-> "raise", raw |-> <<>>]}

\* query_cache.get(query) on the state st: the counters after it
AfterGet(st, q) ==
    [st EXCEPT !.total_queries = @ + 1,
               !.hit_count = IF CacheLookup(st.cache, q).found
                             THEN @ + 1 ELSE @]

\* lines 112-139: invoke(inputs) with the chain doing out; the state
\* after the call, the answer returned and whether the call raised
invoke(st, q, out) ==
    LET cached_response == CacheLookup(st.cache, q)
        st1 == AfterGet(st, q)
    IN  IF Truthy(cached_response)
        THEN [st |-> st1, answer |-> cached_response.val, raised |-> FALSE]
        ELSE LET st2 == [st1 EXCEPT
                            !.chainCalls = Bump(@, get_cache_key(q))]
             IN  IF out.kind = "raise"
                 THEN [st |-> st2, answer |-> <<>>, raised |-> TRUE]
                 ELSE LET answer == clean_answer(out.raw) IN
                      [st |-> [st2 EXCEPT !.cache = CacheSet(@, q, answer)],
                       answer |-> answer, raised |-> FALSE]

\* an ainvoke that stores and returns the chain's answer as it came
ainvokeUncleaned(st, q, out) ==
    LET cached_response == CacheLookup(st.cache, q)
        st1 == AfterGet(st, q)
    IN  IF Truthy(cached_response)
        THEN [st |-> st1, answer |-> cached_response.val, raised |-> FALSE]
        ELSE LET st2 == [st1 EXCEPT
                            !.chainCalls = Bump(@, get_cache_key(q))]
             IN  IF out.kind = "raise"
                 THEN [st |-> st2, answer |-> <<>>, raised |-> TRUE]
                 ELSE [st |-> [st2 EXCEPT !.cache = CacheSet(@, q, out.raw)],
                       answer |-> out.raw, raised |-> FALSE]

\* lines 141-168: ainvoke(inputs) run to completion with the chain doing
\* out
ainvoke(st, q, out) ==
    LET cached_response == CacheLookup(st.cache, q)
        st1 == AfterGet(st, q)
    IN  IF Truthy(cached_response)
        THEN [st |-> st1, answer |-> cached_response.val, raised |-> FALSE]
        ELSE LET st2 == [st1 EXCEPT
                            !.chainCalls = Bump(@, get_cache_key(q))]
             IN  IF out.kind = "raise"
                 THEN [st |-> st2, answer |-> <<>>, raised |-> TRUE]
                 ELSE LET answer == clean_answer(out.raw) IN
                      [st |-> [st2 EXCEPT !.cache = CacheSet(@, q, answer)],
                       answer |-> answer, raised |-> FALSE]

\* one wrapper call run to completion in the way mode names; twin keeps
\* what it did next to what the other way does from the same state
WholeCall(mode, q, out) ==
    /\ invokes < MaxInvokes
    /\ invokes' = invokes + 1
    /\ LET byInvoke  == invoke(QcState, q, out)
           byAinvoke == ainvoke(QcState, q, out)
           mine  == IF mode = "invoke" THEN byInvoke ELSE byAinvoke
           other == IF mode = "invoke" THEN byAinvoke ELSE byInvoke
       IN
        /\ query_cache' = mine.st.cache
        /\ hit_count' = mine.st.hit_count
        /\ total_queries' = mine.st.total_queries
        /\ chainCalls' = mine.st.chainCalls
        /\ answered' = IF mine.raised THEN answered
                       ELSE answered \cup {get_cache_key(q)}
        /\ twin' = [mode |-> mode, q |-> q, mine |-> mine, other |-> other]
    /\ UNCHANGED <<caller, lastInvoke, storedBy, crossLog>>
    /\ UNCHANGED <<apiVars, fpVars, batchVars, flaskVars, diskVars, clsVars>>

\* invoke(inputs)
WholeInvoke(q, out) == WholeCall("invoke", q, out)

\* await ainvoke(inputs)
WholeAinvoke(q, out) == WholeCall("ainvoke", q, out)

----------------------------------------------------------------------------
\* The fingerprint as a pure function of the locator list

ComputeFingerprints ==
    /\ ~fpDone
    /\ fpA' = Fingerprint(fpList)
    /\ fpB' = Fingerprint(fpOther)
    /\ fpDone' = TRUE
    /\ UNCHANGED <<fpList, fpOther, apiVars, qcVars, callVars, batchVars, flaskVars, diskVars, clsVars, histVars>>



----------------------------------------------------------------------------
\* api.py: classify_question_complexity

\* sub in s
IsSubstr(sub, s) ==
    \E i \in 0..(Len(s) - Len(sub)) : SubSeq(s, i + 1, i + Len(sub)) = sub

\* s.count(sub): the occurrences found left to right without overlap
RECURSIVE StrCount(_, _)
StrCount(s, sub) ==
    IF Len(s) < Len(sub) THEN 0
    ELSE IF SubSeq(s, 1, Len(sub)) = sub
         THEN 1 + StrCount(SubSeq(s, Len(sub) + 1, Len(s)), sub)
         ELSE StrCount(Tail(s), sub)

\* len(s.split()): the runs of tokens between whitespace
WordCount(s) ==
    Cardinality({i \in 1..Len(s) :
                    ~IsSpace(s[i]) /\ (i = 1 \/ IsSpace(s[i - 1]))})

high_complexity_indicators ==
    << <<"compare">>, <<"analyze">>, <<"relationship">>, <<"interaction">>,
       <<"simultaneously">>, <<"while">>, <<"also", " ", "request">>,
       <<"also", " ", "ask">>, <<"both">>, <<"multiple">>, <<"various">>,
       <<"different">>, <<"scenario">>, <<"interaction">>, <<"contrast">>,
       <<"evaluate">> >>

medium_complexity_indicators ==
    << <<"covered">>, <<"eligible">>, <<"benefit">>, <<"claim">>,
       <<"waiting", " ", "period">>, <<"exclusion">>, <<"limitation">>,
       <<"condition">>, <<"procedure">>, <<"process">>, <<"requirement">> >>

simple_indicators ==
    << <<"what", " ", "is">>, <<"define">>, <<"meaning">>,
       <<"who", " ", "is">>, <<"when">>, <<"where">> >>

\* a count of the listed keywords that occur, a keyword listed twice
\* counted once
IndicatorsPresentDistinct(list, s) ==
    Cardinality({list[i] : i \in {j \in 1..Len(list) : IsSubstr(list[j], s)}})

\* sum(1 for indicator in list if indicator in s): one per list entry
IndicatorsPresent(list, s) ==
    Cardinality({i \in 1..Len(list) : IsSubstr(list[i], s)})

\* any(indicator in s for indicator in list)
AnyIndicator(list, s) == \E i \in 1..Len(list) : IsSubstr(list[i], s)

\* lines 238-241
LengthScore(n) == IF n > 25 THEN 2 ELSE IF n > 15 THEN 1 ELSE 0

\* lines 231-241: complexity_score at the final test
complexity_score(question) ==
    IndicatorsPresent(high_complexity_indicators, lower(question))
    + (StrCount(question, <<"?">>) - 1)
    + (StrCount(question, <<",">>) \div 2)
    + (StrCount(question, <<" ", "and", " ">>)
       + StrCount(question, <<" ", "or", " ">>))
    + LengthScore(WordCount(question))

\* the final test with the simple indicators looked at before the medium
\* keywords
FinalTierSimpleFirst(score, question_lower) ==
    IF score >= 4 THEN "complex"
    ELSE IF score >= 2 THEN "medium"
    ELSE IF AnyIndicator(simple_indicators, question_lower) THEN "simple"
    ELSE "medium"

\* lines 244-251
FinalTier(score, question_lower) ==
    IF score >= 4 THEN "complex"
    ELSE IF score >= 2
            \/ AnyIndicator(medium_complexity_indicators, question_lower)
         THEN "medium"
    ELSE IF AnyIndicator(simple_indicators, question_lower) THEN "simple"
    ELSE "medium"

classify_question_complexity(question) ==
    FinalTier(complexity_score(question), lower(question))

\* spec 4.3: "Add 1 for each occurrence of any high-complexity keyword from
\* a fixed list"
RECURSIVE KeywordOccurrences(_, _)
KeywordOccurrences(kws, s) ==
    IF kws = {} THEN 0
    ELSE LET k == CHOOSE x \in kws : TRUE
         IN  StrCount(s, k) + KeywordOccurrences(kws \ {k}, s)

\* the keywords of a list
KeywordSet(list) == {list[i] : i \in 1..Len(list)}

\* thirteen words, each behind a space
Filler13 ==
    [i \in 1..26 |-> IF i % 2 = 1 THEN " " ELSE "x"]

\* the pieces questions are put together from
Phrases ==
    { <<"what", " ", "is">>, <<"when">>, <<"compare", " ", "both">>,
      <<"Compare">>,
      <<"interaction">>, <<"covered">>, <<" ", "and", " ">>,
      <<" ", "or", " ">>, <<"?">>, <<",">>, Filler13 }

RECURSIVE Concat(_)
Concat(ps) == IF ps = <<>> THEN <<>> ELSE Head(ps) \o Concat(Tail(ps))

\* the questions of at most MaxPhrases phrases
ClsQuestions == {Concat(ps) : ps \in ListsOver(Phrases, MaxPhrases)}

\* one call of classify_question_complexity
Classify ==
    /\ ~clsDone
    /\ clsScore' = complexity_score(clsQuestion)
    /\ clsTier' = classify_question_complexity(clsQuestion)
    /\ clsDone' = TRUE
    /\ UNCHANGED <<clsQuestion, apiVars, fpVars, qcVars, callVars, batchVars,
                   flaskVars, diskVars, histVars>>

----------------------------------------------------------------------------
\* api.py: process_claims

BatchIds == {1, 2}

\* sem = asyncio.Semaphore(3)
SemSize == 3

\* the questions of a request
BatchQuestions == {Q2, Q3}

\* the document sets of a request
BatchDocs == {DocNone, DocStr(U1)}

Positions(b) == 1..Len(questions[b])

\* the synthesis calls of request b in flight
InFlight(b) == {i \in Positions(b) : pc[b][i] = "call"}

\* a semaphore that never blocks
SemNeverBlocks(free) == TRUE

\* Semaphore.acquire returns without waiting
SemAcquirable(free) == free > 0

\* Semaphore.acquire
SemAcquire(free) == free - 1

\* an exit that frees the slot only when the body returned
SemExitLeaksOnRaise(free, raised) == IF raised THEN free ELSE free + 1

\* an exit that frees the slot only when the body raised
SemExitLeaksOnReturn(free, raised) == IF raised THEN free + 1 ELSE free

\* `async with sem` left: __aexit__ calls Semaphore.release whether the body
\* returned or raised
SemExit(free, raised) == free + 1

\* the results in the reverse of the order of the awaitables
GatherReversed(r) == [i \in 1..Len(r) |-> r[Len(r) + 1 - i]]

\* asyncio.gather: the results in the order of the awaitables
GatherResults(r) == r

\* the requests whose task stored an answer under the key k
StoredBy(k) == IF k \in DOMAIN storedBy THEN storedBy[k] ELSE {}

\* the task i of the request b begins on its question taking the way path:
\* kept when a task of another request stored under the question's key
LogBegin(b, i, path) ==
    crossLog' =
        IF StoredBy(get_cache_key(questions[b][i])) \ {b} # {}
        THEN crossLog \cup {[b |-> b, i |-> i, path |-> path]}
        ELSE crossLog

\* lines 255-261 and 271: the request up to the first await.  get_retriever
\* runs with the tier 'medium'; create_rag_chain returns None when it
\* catches an exception; gather schedules one _answer task per question
ProcessClaims(b, d, qs, chain) ==
    /\ batchState[b] = "idle"
    /\ total_requests' = total_requests + 1
    /\ calls' = calls + 1
    /\ GetRetriever(d, "medium")
    /\ IF lastCall'.path \in {"ingestion_error", "build_error"}
       THEN /\ batchState' = [batchState EXCEPT ![b] = "raised"]
            /\ UNCHANGED <<questions, rag, sem, pc, res>>
       ELSE /\ batchState' = [batchState EXCEPT ![b] = "running"]
            /\ questions' = [questions EXCEPT ![b] = qs]
            /\ rag' = [rag EXCEPT ![b] = chain]
            /\ sem' = [sem EXCEPT ![b] = SemSize]
            /\ pc' = [pc EXCEPT ![b] = [i \in 1..Len(qs) |-> "pending"]]
            /\ res' = [res EXCEPT ![b] = [i \in 1..Len(qs) |-> <<>>]]
    /\ UNCHANGED <<answers, qcVars, callVars, fpVars, flaskVars, diskVars, clsVars, histVars>>

\* lines 262-269, rag is None: rag.ainvoke raises AttributeError inside
\* `async with sem`
AnswerNoChain(b, i) ==
    /\ batchState[b] # "idle"
    /\ i \in Positions(b)
    /\ pc[b][i] = "pending"
    /\ SemAcquirable(sem[b])
    /\ rag[b] = "None"
    /\ pc' = [pc EXCEPT ![b][i] = "failed"]
    /\ UNCHANGED <<questions, rag, sem, res, batchState, answers,
                   qcVars, callVars, apiVars, fpVars, flaskVars, diskVars, clsVars, histVars>>

\* lines 262-269, cache hit: the task takes a slot, gets the cached answer,
\* frees the slot and ends with no await in between
AnswerHit(b, i) ==
    /\ batchState[b] # "idle"
    /\ i \in Positions(b)
    /\ pc[b][i] = "pending"
    /\ SemAcquirable(sem[b])
    /\ rag[b] = "chain"
    /\ WrapperHit(questions[b][i])
    /\ res' = [res EXCEPT ![b][i] = CacheLookup(query_cache, questions[b][i]).val]
    /\ pc' = [pc EXCEPT ![b][i] = "done"]
    /\ LogBegin(b, i, "hit")
    /\ UNCHANGED <<questions, rag, sem, batchState, answers, storedBy, twin,
                   callVars, apiVars, fpVars, flaskVars, diskVars, clsVars>>

\* lines 262-265, cache miss: the task takes a slot and awaits the chain
AnswerMiss(b, i) ==
    /\ batchState[b] # "idle"
    /\ i \in Positions(b)
    /\ pc[b][i] = "pending"
    /\ SemAcquirable(sem[b])
    /\ rag[b] = "chain"
    /\ WrapperMiss(questions[b][i])
    /\ sem' = [sem EXCEPT ![b] = SemAcquire(sem[b])]
    /\ pc' = [pc EXCEPT ![b][i] = "call"]
    /\ LogBegin(b, i, "miss")
    /\ UNCHANGED <<questions, rag, res, batchState, answers, storedBy, twin,
                   callVars, apiVars, fpVars, flaskVars, diskVars, clsVars>>

\* lines 265-269: the chain returns, the answer is cleaned, cached and
\* returned, the slot is freed
ChainReturn(b, i, raw) ==
    /\ i \in Positions(b)
    /\ pc[b][i] = "call"
    /\ raw \in RawAnswersFor(questions[b][i])
    /\ WrapperStore(questions[b][i], raw)
    /\ res' = [res EXCEPT ![b][i] = clean_answer(raw)]
    /\ pc' = [pc EXCEPT ![b][i] = "done"]
    /\ sem' = [sem EXCEPT ![b] = SemExit(sem[b], FALSE)]
    /\ storedBy' =
          LET k == get_cache_key(questions[b][i]) IN
          [x \in DOMAIN storedBy \cup {k} |->
              IF x = k THEN StoredBy(k) \cup {b} ELSE storedBy[x]]
    /\ UNCHANGED <<questions, rag, batchState, answers, crossLog, twin,
                   callVars, apiVars, fpVars, flaskVars, diskVars, clsVars>>

\* line 265: the chain raises; `async with` frees the slot and the
\* exception ends the task
ChainRaise(b, i) ==
    /\ i \in Positions(b)
    /\ pc[b][i] = "call"
    /\ pc' = [pc EXCEPT ![b][i] = "failed"]
    /\ sem' = [sem EXCEPT ![b] = SemExit(sem[b], TRUE)]
    /\ UNCHANGED <<questions, rag, res, batchState, answers,
                   qcVars, callVars, apiVars, fpVars, flaskVars, diskVars, clsVars, histVars>>

\* lines 271-272: every task returned, gather returns their results
BatchReturn(b) ==
    /\ batchState[b] = "running"
    /\ \A i \in Positions(b) : pc[b][i] = "done"
    /\ answers' = [answers EXCEPT ![b] = GatherResults(res[b])]
    /\ batchState' = [batchState EXCEPT ![b] = "returned"]
    /\ UNCHANGED <<questions, rag, sem, pc, res,
                   qcVars, callVars, apiVars, fpVars, flaskVars, diskVars, clsVars, histVars>>

\* line 271: gather without return_exceptions raises the first exception of
\* a task to process_claims; the other tasks keep running
BatchRaise(b) ==
    /\ batchState[b] = "running"
    /\ \E i \in Positions(b) : pc[b][i] = "failed"
    /\ batchState' = [batchState EXCEPT ![b] = "raised"]
    /\ UNCHANGED <<questions, rag, sem, pc, res, answers,
                   qcVars, callVars, apiVars, fpVars, flaskVars, diskVars, clsVars, histVars>>

\* the document set of each of two requests
SharedDocs(b) == IF b = 1 THEN {DocStr(U1)} ELSE {DocNone, DocStr(U2)}

InitBatchIdle ==
    /\ questions = [b \in BatchIds |-> <<>>]
    /\ rag = [b \in BatchIds |-> "chain"]
    /\ sem = [b \in BatchIds |-> SemSize]
    /\ pc = [b \in BatchIds |-> <<>>]
    /\ res = [b \in BatchIds |-> <<>>]
    /\ batchState = [b \in BatchIds |-> "idle"]
    /\ answers = [b \in BatchIds |-> <<>>]


----------------------------------------------------------------------------
\* flask_app.py: build_faiss_for_urls and build_faiss_for_files, run by the
\* threads of the server

FlaskThreads == {1, 2}

\* document_links of a request that reaches build_faiss_for_urls
FlaskUrlLists == {<<U1>>, <<U1, U2>>, <<U2, U1>>}

\* UPLOAD_FOLDER = "data"
UPLOAD_FOLDER == <<"d">>

\* urlparse(link).path: what follows the scheme and host
UrlPath(link) == IF link # <<>> /\ Head(link) = "h" THEN Tail(link) ELSE link

RECURSIVE Basename(_)
\* os.path.basename: what follows the last "/"
Basename(path) ==
    IF \E i \in 1..Len(path) : path[i] = "/"
    THEN Basename(Tail(path))
    ELSE path

\* f"file_{hashlib.md5(link.encode()).hexdigest()}.dat"
FallbackName(link) == <<"f">> \o Md5Hex(link)

\* lines 126-127: the path a downloaded link is saved to
SavePath(link) ==
    LET base == Basename(UrlPath(link)) IN
    UPLOAD_FOLDER \o <<"/">> \o (IF base # <<>> THEN base ELSE FallbackName(link))

FlIdle ==
    [pc |-> "idle", urls |-> <<>>, key |-> <<>>, saved |-> <<>>,
     path |-> "none", prior |-> FALSE, handle |-> NoHandle,
     storedKey |-> <<>>]

\* the threads that have missed the cache and not yet returned
Building(t) == fl[t].pc \in {"download", "build"}

\* lines 114-118: the key is looked up; a hit returns the cached index
UrlsHit(t, urls) ==
    /\ fl[t].pc = "idle"
    /\ flaskCalls < MaxFlaskCalls
    /\ flaskCalls' = flaskCalls + 1
    /\ LET key == Fingerprint(urls) IN
        /\ key \in DOMAIN flaskCache
        /\ fl' = [fl EXCEPT ![t] = [FlIdle EXCEPT
                     !.urls = urls, !.key = key, !.path = "hit",
                     !.prior = (key \in flaskBuiltFor),
                     !.handle = flaskCache[key]]]
    /\ UNCHANGED <<flaskCache, faissDir, flaskBuilds, flaskBuiltFor>>
    /\ UNCHANGED <<apiVars, fpVars, qcVars, callVars, batchVars, diskVars, clsVars, histVars>>

\* lines 114-120: the key is looked up and missing
UrlsMiss(t, urls) ==
    /\ fl[t].pc = "idle"
    /\ flaskCalls < MaxFlaskCalls
    /\ flaskCalls' = flaskCalls + 1
    /\ LET key == Fingerprint(urls) IN
        /\ key \notin DOMAIN flaskCache
        /\ fl' = [fl EXCEPT ![t] = [FlIdle EXCEPT
                     !.pc = "download", !.urls = urls, !.key = key,
                     !.path = "miss",
                     !.prior = (key \in flaskBuiltFor)]]
    /\ UNCHANGED <<flaskCache, faissDir, flaskBuilds, flaskBuiltFor>>
    /\ UNCHANGED <<apiVars, fpVars, qcVars, callVars, batchVars, diskVars, clsVars, histVars>>

RECURSIVE SavedFiles(_, _, _)
\* saved_files: the save paths of the links at the positions ok, in order
SavedFiles(urls, ok, i) ==
    IF i > Len(urls) THEN <<>>
    ELSE (IF i \in ok THEN <<SavePath(urls[i])>> ELSE <<>>)
             \o SavedFiles(urls, ok, i + 1)

\* lines 120-139: the links at the positions ok are downloaded with status
\* 200 and saved; with none saved the call returns (None, None)
UrlsDownload(t, ok) ==
    /\ fl[t].pc = "download"
    /\ ok \subseteq 1..Len(fl[t].urls)
    /\ IF ok = {}
       THEN fl' = [fl EXCEPT ![t].pc = "idle", ![t].path = "no_files"]
       ELSE fl' = [fl EXCEPT ![t].pc = "build",
                             ![t].saved = SavedFiles(fl[t].urls, ok, 1)]
    /\ UNCHANGED <<flaskCache, faissDir, flaskBuilds, flaskBuiltFor, flaskCalls>>
    /\ UNCHANGED <<apiVars, fpVars, qcVars, callVars, batchVars, diskVars, clsVars, histVars>>

\* lines 83-94: no saved file yields a document: (None, None)
FilesNoDocs(t) ==
    /\ fl[t].pc = "build"
    /\ fl' = [fl EXCEPT ![t].pc = "idle", ![t].path = "no_docs"]
    /\ UNCHANGED <<flaskCache, faissDir, flaskBuilds, flaskBuiltFor, flaskCalls>>
    /\ UNCHANGED <<apiVars, fpVars, qcVars, callVars, batchVars, diskVars, clsVars, histVars>>

\* lines 83-100: FAISS.from_documents raises
FilesBuildFails(t) ==
    /\ fl[t].pc = "build"
    /\ fl' = [fl EXCEPT ![t].pc = "idle", ![t].path = "build_error"]
    /\ UNCHANGED <<flaskCache, faissDir, flaskBuilds, flaskBuiltFor, flaskCalls>>
    /\ UNCHANGED <<apiVars, fpVars, qcVars, callVars, batchVars, diskVars, clsVars, histVars>>

\* lines 83-111: the index is built from the files at the positions ok,
\* saved under the digest of the sorted file paths and cached under it
FilesBuild(t, ok) ==
    /\ fl[t].pc = "build"
    /\ ok \subseteq 1..Len(fl[t].saved)
    /\ ok # {}
    /\ LET file_paths == fl[t].saved
           url_hash   == Fingerprint(file_paths)
           h          == [id |-> flaskBuilds + 1,
                          docs |-> {file_paths[i] : i \in ok}]
       IN
        /\ flaskBuilds' = flaskBuilds + 1
        /\ faissDir' = CacheStore(faissDir, url_hash, h)
        /\ flaskCache' = CacheStore(flaskCache, url_hash, h)
        /\ fl' = [fl EXCEPT ![t].pc = "idle", ![t].path = "built",
                            ![t].handle = h, ![t].storedKey = url_hash]
        /\ flaskBuiltFor' = flaskBuiltFor \cup {fl[t].key}
    /\ UNCHANGED flaskCalls
    /\ UNCHANGED <<apiVars, fpVars, qcVars, callVars, batchVars, diskVars, clsVars, histVars>>

\* utils/faiss_index_generator.py saves the index of a URL under
\* hashlib.sha256(url.encode('utf-8')).hexdigest(); FAISS_DIR holds nothing
\* or what the generator saved for U1
GeneratedDirs ==
    { <<>>, CacheStore(<<>>, Sha256Hex(U1), [id |-> 0, docs |-> {U1}]) }

\* the Flask server not started
InitFlaskIdle ==
    /\ faissDir = <<>>
    /\ flaskCache = <<>>
    /\ fl = [t \in FlaskThreads |-> FlIdle]
    /\ flaskBuilds = 0
    /\ flaskBuiltFor = {}
    /\ flaskCalls = 0

\* the module as imported: preload_faiss has loaded what FAISS_DIR holds
InitFlask ==
    /\ faissDir \in GeneratedDirs
    /\ flaskCache = faissDir
    /\ fl = [t \in FlaskThreads |-> FlIdle]
    /\ flaskBuilds = 0
    /\ flaskBuiltFor = {}
    /\ flaskCalls = 0

----------------------------------------------------------------------------
\* utils/faiss_index_generator.py: create_local_faiss_stores

\* the lines of links.txt as `for line in f` yields them
LinkLines ==
    { U1 \o <<"\n">>, <<" ">> \o U2 \o <<"\n">>, <<"h", "/", "\n">>,
      <<"\n">> }

\* Path(urlparse(url).path).suffix is not empty: the path ends in a file
\* name
HasSuffix(url) == Basename(UrlPath(url)) # <<>>

\* a name taken from the file name alone
GeneratorNameOfFile(url) == Sha256Hex(Basename(UrlPath(url)))

\* line 72: url_hash = hashlib.sha256(url.encode('utf-8')).hexdigest()
GeneratorName(url) == Sha256Hex(url)

\* lines 62-63 and 70-112 for one line of links.txt whose index is saved:
\* the line is stripped and not blank, no entry of its name exists, the
\* URL has a suffix, the download succeeds and the document has chunks.
\* For every other line the loop goes on with FAISS_DIR as it is.
Generate(line) ==
    LET url == strip(line) IN
    /\ url # <<>>
    /\ GeneratorName(url) \notin DOMAIN apiDir
    /\ HasSuffix(url)
    /\ apiDir' = CacheStore(apiDir, GeneratorName(url),
                            [id |-> 0, docs |-> {url}])
    /\ UNCHANGED <<up, loadFailed, resolvedBefore, restarts>>
    /\ UNCHANGED <<apiVars, fpVars, qcVars, callVars, batchVars, flaskVars, clsVars, histVars>>

\* api.py not yet imported and the generator not yet run
InitDiskEmpty ==
    /\ apiDir = <<>>
    /\ up = FALSE
    /\ loadFailed = {}
    /\ resolvedBefore = {}
    /\ restarts = 0

----------------------------------------------------------------------------
\* Specifications

InitResolve == InitApi /\ InitDiskIdle /\ InitClsIdle /\ InitHistIdle /\ InitFpIdle /\ InitQueryCache /\ InitBatchIdle /\ InitFlaskIdle

NextResolve == Resolve

SpecResolve == InitResolve /\ [][NextResolve]_vars

InitCache == InitApi /\ InitDiskIdle /\ InitClsIdle /\ InitHistIdle /\ InitFpIdle /\ InitQueryCache /\ InitBatchIdle /\ InitFlaskIdle

NextCache ==
    \/ \E q \in QuestionPool : Invoke(q)
    \/ \E q \in QuestionPool : Ainvoke(q)
    \/ \E raw \in UNION {RawAnswersFor(q) : q \in QuestionPool} : CallEnd(raw)
    \/ CallRaise

SpecCache == InitCache /\ [][NextCache]_vars

\* wrapper calls in sequence, each run to completion, each by invoke or by
\* ainvoke
NextEquiv ==
    \/ \E q \in QuestionPool : \E out \in ChainOutcomes(q) : WholeInvoke(q, out)
    \/ \E q \in QuestionPool : \E out \in ChainOutcomes(q) : WholeAinvoke(q, out)

SpecEquiv == InitCache /\ [][NextEquiv]_vars

InitFp ==
    /\ InitApi
    /\ InitDiskIdle /\ InitClsIdle /\ InitHistIdle
    /\ InitQueryCache
    /\ InitBatchIdle
    /\ InitFlaskIdle
    /\ fpList \in ListsOver(LocatorPool, MaxUrls) \ {<<>>}
    /\ fpOther \in ListsOver(LocatorPool, MaxUrls) \ {<<>>}
    /\ fpA = <<>>
    /\ fpB = <<>>
    /\ fpDone = FALSE

NextFp == ComputeFingerprints

SpecFp == InitFp /\ [][NextFp]_vars

\* one request, its tasks interleaved by the event loop
InitBatch ==
    /\ InitApi
    /\ InitDiskIdle /\ InitClsIdle /\ InitHistIdle
    /\ InitFpIdle /\ InitQueryCache /\ InitBatchIdle /\ InitFlaskIdle

NextBatch ==
    \/ \E d \in BatchDocs, qs \in ListsOver(BatchQuestions, MaxQuestions),
          chain \in {"chain", "None"} : ProcessClaims(1, d, qs, chain)
    \/ \E i \in Positions(1) : AnswerNoChain(1, i)
    \/ \E i \in Positions(1) : AnswerHit(1, i)
    \/ \E i \in Positions(1) : AnswerMiss(1, i)
    \/ \E i \in Positions(1) :
          \E raw \in RawAnswersFor(questions[1][i]) : ChainReturn(1, i, raw)
    \/ \E i \in Positions(1) : ChainRaise(1, i)
    \/ BatchReturn(1)
    \/ BatchRaise(1)

SpecBatch == InitBatch /\ [][NextBatch]_vars

\* one request for the persistent store whose questions are all the same,
\* under the event loop's
\* scheduling: a task that can go on is run, a chain call that is awaited
\* returns or raises, and gather is resumed
TaskBegin(i) ==
    AnswerNoChain(1, i) \/ AnswerHit(1, i) \/ AnswerMiss(1, i)

TaskEnd(i) ==
    \/ \E raw \in RawAnswersFor(Q3) : ChainReturn(1, i, raw)
    \/ ChainRaise(1, i)

NextProgress ==
    \/ \E qs \in ListsOver({Q3}, MaxQuestions), chain \in {"chain", "None"} :
          ProcessClaims(1, DocNone, qs, chain)
    \/ \E i \in 1..MaxQuestions : TaskBegin(i)
    \/ \E i \in 1..MaxQuestions : TaskEnd(i)
    \/ BatchReturn(1)
    \/ BatchRaise(1)

SpecProgress ==
    /\ InitBatch
    /\ [][NextProgress]_vars
    /\ \A i \in 1..MaxQuestions : WF_vars(TaskBegin(i))
    /\ \A i \in 1..MaxQuestions : WF_vars(TaskEnd(i))
    /\ WF_vars(BatchReturn(1) \/ BatchRaise(1))

\* two requests on one event loop, the first for the document U1, the
\* second for another document or for the persistent store
NextShared ==
    \/ \E b \in BatchIds, qs \in ListsOver(BatchQuestions, MaxSharedQuestions) :
          \E d \in SharedDocs(b) : ProcessClaims(b, d, qs, "chain")
    \/ \E b \in BatchIds : \E i \in Positions(b) : AnswerHit(b, i)
    \/ \E b \in BatchIds : \E i \in Positions(b) : AnswerMiss(b, i)
    \/ \E b \in BatchIds : \E i \in Positions(b) :
          \E raw \in RawAnswersFor(questions[b][i]) : ChainReturn(b, i, raw)
    \/ \E b \in BatchIds : \E i \in Positions(b) : ChainRaise(b, i)
    \/ \E b \in BatchIds : BatchReturn(b)
    \/ \E b \in BatchIds : BatchRaise(b)

SpecShared == InitBatch /\ [][NextShared]_vars

\* the requests with document links of one run of the Flask server
InitFlaskRun ==
    /\ InitApi
    /\ InitDiskIdle /\ InitClsIdle /\ InitHistIdle
    /\ InitFpIdle /\ InitQueryCache /\ InitBatchIdle /\ InitFlask

NextFlask ==
    \/ \E t \in FlaskThreads, urls \in FlaskUrlLists : UrlsHit(t, urls)
    \/ \E t \in FlaskThreads, urls \in FlaskUrlLists : UrlsMiss(t, urls)
    \/ \E t \in FlaskThreads : \E ok \in SUBSET (1..Len(fl[t].urls)) :
          UrlsDownload(t, ok)
    \/ \E t \in FlaskThreads : FilesNoDocs(t)
    \/ \E t \in FlaskThreads : FilesBuildFails(t)
    \/ \E t \in FlaskThreads : \E ok \in SUBSET (1..Len(fl[t].saved)) :
          FilesBuild(t, ok)

SpecFlask == InitFlaskRun /\ [][NextFlask]_vars

\* classify_question_complexity on each question of the bounded set
InitClassify ==
    /\ InitApi
    /\ InitDiskIdle
    /\ InitFpIdle /\ InitQueryCache /\ InitBatchIdle /\ InitFlaskIdle
    /\ InitHistIdle
    /\ clsQuestion \in ClsQuestions
    /\ clsScore = 0
    /\ clsTier = "none"
    /\ clsDone = FALSE

NextClassify == Classify

SpecClassify == InitClassify /\ [][NextClassify]_vars

\* process runs of api.py over one FAISS_DIR
InitLifecycle ==
    /\ InitApi
    /\ InitDiskCold /\ InitClsIdle /\ InitHistIdle
    /\ InitFpIdle /\ InitQueryCache /\ InitBatchIdle /\ InitFlaskIdle

NextLifecycle ==
    \/ Startup
    \/ LifecycleResolve
    \/ Shutdown

SpecLifecycle == InitLifecycle /\ [][NextLifecycle]_vars

\* runs of the generator and of api.py over one FAISS_DIR
InitGenerator ==
    /\ InitApi
    /\ InitDiskEmpty /\ InitClsIdle /\ InitHistIdle
    /\ InitFpIdle /\ InitQueryCache /\ InitBatchIdle /\ InitFlaskIdle

NextGenerator ==
    \/ \E line \in LinkLines : Generate(line)
    \/ Startup
    \/ LifecycleResolve
    \/ Shutdown

SpecGenerator == InitGenerator /\ [][NextGenerator]_vars

----------------------------------------------------------------------------
\* C7: every permutation of a non-empty locator list has the fingerprint of
\* the list, so both orderings address the same FAISS_CACHE entry.
C7_PermutationSameFingerprint ==
    (fpDone /\ IsPermutation(fpList, fpOther)) => fpA = fpB

C7_Witness ==
    /\ fpDone
    /\ Len(fpList) = 2
    /\ fpList # fpOther
    /\ IsPermutation(fpList, fpOther)
    /\ fpA = fpB

\* C5: a get_retriever call for a document set that an earlier call of the
\* same process resolved successfully is a cache hit and makes no ingestion
\* and no embedding call.
C5_SecondCallIsHit ==
    (lastCall.path # "none" /\ lastCall.prior) =>
        /\ lastCall.path = "hit"
        /\ lastCall.ingestCalls = 0
        /\ lastCall.embedCalls = 0

C5_Witness ==
    /\ lastCall.prior
    /\ lastCall.path = "hit"
    /\ lastCall.handle.id > 0
    /\ lastCall.docs.kind = "list"
    /\ Len(lastCall.docs.val) = 2

\* C8: for None, the empty string and the empty list get_retriever answers
\* from the persistent store, does not consult or change FAISS_CACHE and
\* leaves the cache-hit counter as it was.
C8_EmptyRoutesToPersistentStore ==
    (lastCall.path # "none" /\ lastCall.docs \in {DocNone, DocStr(<<>>), DocList(<<>>)}) =>
        /\ lastCall.path = "pinecone"
        /\ ~lastCall.consulted
        /\ FAISS_CACHE = lastCall.cacheBefore
        /\ cache_hits = lastCall.hitsBefore
        /\ lastCall.ingestCalls = 0

C8_Witness ==
    /\ lastCall.path = "pinecone"
    /\ lastCall.docs = DocStr(<<>>)
    /\ DOMAIN FAISS_CACHE # {}
    /\ cache_hits > 0

----------------------------------------------------------------------------
\* C1: when the synthesis call of one question raises, the request still
\* returns (an error placeholder at that position, the answers at the
\* others): process_claims itself does not raise.
C1_BatchSurvivesSynthesisError ==
    \A b \in BatchIds :
        (rag[b] = "chain" /\ \E i \in Positions(b) : pc[b][i] = "failed")
            => batchState[b] # "raised"

\* C2: at every moment at most SemSize synthesis calls of one request are
\* in flight, however many questions the request has.
C2_BoundedInFlight ==
    \A b \in BatchIds : Cardinality(InFlight(b)) <= SemSize

C2_Witness ==
    /\ Cardinality(InFlight(1)) = SemSize
    /\ \E i \in Positions(1) : pc[1][i] = "pending"

\* C3: the answers of a returned request have one entry per question, and
\* entry i is what the task of question i returned, an answer to question i.
C3_AnswersInInputOrder ==
    \A b \in BatchIds :
        batchState[b] = "returned" =>
            /\ Len(answers[b]) = Len(questions[b])
            /\ \A i \in Positions(b) :
                  /\ answers[b][i] = res[b][i]
                  /\ answers[b][i] \in AnswersFor(questions[b][i])

C3_Witness ==
    /\ batchState[1] = "returned"
    /\ Len(answers[1]) >= 3
    /\ answers[1][1] # <<>>
    /\ answers[1][2] # <<>>
    /\ answers[1][1] # answers[1][2]
    /\ answers[1][3] = <<>>

\* C4: of the build_faiss_for_urls calls running at the same time for a
\* document set that is not cached, only one downloads and builds.
C4_OneBuildInFlightPerFingerprint ==
    \A t1, t2 \in FlaskThreads :
        (t1 # t2 /\ Building(t1) /\ Building(t2)) => fl[t1].key # fl[t2].key

\* C6: a build_faiss_for_urls call for a URL list that an earlier call
\* built an index for is a cache hit: the earlier call stored the index
\* under the key this call looks up.
C6_SecondUrlCallIsHit ==
    \A t \in FlaskThreads : fl[t].prior => fl[t].path = "hit"

\* C9: a call of invoke or ainvoke whose key an earlier call was answered
\* for returns the stored answer and does not invoke the chain, whatever
\* the stored answer is.
C9_RepeatedQuestionServedFromCache ==
    lastInvoke.prior =>
        /\ lastInvoke.outcome = "hit"
        /\ ~lastInvoke.chainInvoked
        /\ lastInvoke.answer = lastInvoke.stored

\* C10: the chain is invoked at most once for a question that one request
\* holds several times.
C10_ChainInvokedOncePerKey ==
    \A k \in DOMAIN chainCalls : chainCalls[k] <= 1

\* C11 (as stated): on a miss the resolve ends with an index if and only if
\* at least one locator yields documents, and with the ingestion error if
\* and only if none does.
C11_SucceedsIffSomeLocatorYields ==
    (lastCall.consulted /\ lastCall.path # "hit") =>
        /\ (lastCall.path = "built") <=> (lastCall.yielded # {})
        /\ (lastCall.path = "ingestion_error") <=> (lastCall.yielded = {})

\* C11 (amended): on a miss every locator is attempted, whichever of them
\* fail; the resolve ends with the ingestion error if and only if no
\* locator yields documents; when some locator yields, the resolve ends
\* with an index over the documents of exactly the yielding locators, or
\* with the error the index build raised.
C11_EveryLocatorAttempted ==
    (lastCall.consulted /\ lastCall.path # "hit") =>
        LET urls == UrlsOf(lastCall.docs) IN
        /\ lastCall.ingestCalls = Len(urls)
        /\ (lastCall.path = "ingestion_error") <=> (lastCall.yielded = {})
        /\ lastCall.yielded # {} => lastCall.path \in {"built", "build_error"}
        /\ lastCall.path = "built" =>
               lastCall.handle.docs = {urls[i] : i \in lastCall.yielded}

\* the first locator fails, the second yields, and the index holds the
\* second locator's documents
C11_Witness ==
    /\ lastCall.path = "built"
    /\ Len(UrlsOf(lastCall.docs)) = 2
    /\ lastCall.yielded = {2}
    /\ lastCall.handle.docs = {UrlsOf(lastCall.docs)[2]}

\* C12: after a resolve that missed and built an index, FAISS_CACHE holds
\* the handle under the fingerprint and FAISS_DIR holds an entry named by
\* the fingerprint.
C12_BuiltIndexCachedAndPersisted ==
    lastCall.path = "built" =>
        /\ lastCall.fp \in DOMAIN FAISS_CACHE
        /\ FAISS_CACHE[lastCall.fp] = lastCall.handle
        /\ lastCall.fp \in DOMAIN apiDir

\* C13: with every entry of FAISS_DIR loaded at the start of the run, a
\* resolve of a document set that an earlier process run built an index
\* for is a hit with no ingestion and no index build.
C13_RestartRoundTrip ==
    (up /\ loadFailed = {} /\ lastCall.consulted
        /\ lastCall.fp \in resolvedBefore) =>
        /\ lastCall.path = "hit"
        /\ lastCall.ingestCalls = 0
        /\ lastCall.embedCalls = 0

\* C14: when the import of api.py has ended, FAISS_CACHE holds every entry
\* of FAISS_DIR whose load did not fail, under its directory name, and no
\* other entry; the process is up whichever loads failed.
C14_PreloadSkipsFailedEntries ==
    (up /\ lastCall.path = "none") =>
        /\ DOMAIN FAISS_CACHE = DOMAIN apiDir \ loadFailed
        /\ \A n \in DOMAIN FAISS_CACHE : FAISS_CACHE[n] = apiDir[n]

\* one entry failed to load and the other is in the cache of the started
\* process
C14_Witness ==
    /\ up
    /\ lastCall.path = "none"
    /\ Cardinality(loadFailed) = 1
    /\ Cardinality(DOMAIN apiDir) = 2
    /\ Cardinality(DOMAIN FAISS_CACHE) = 1

\* C18: the retriever get_retriever returns is made with k = 6 for the tier
\* simple, 8 for medium, 10 for complex and 8 for any other tier, from the
\* persistent store and from a cached or built index alike.
C18_KByTier ==
    lastCall.path \in {"pinecone", "hit", "built"} =>
        /\ lastCall.tier = "simple"  => lastCall.k = 6
        /\ lastCall.tier = "medium"  => lastCall.k = 8
        /\ lastCall.tier = "complex" => lastCall.k = 10
        /\ lastCall.tier \notin {"simple", "medium", "complex"} =>
               lastCall.k = 8

\* an unmapped tier on a built index
C18_Witness ==
    /\ lastCall.path = "built"
    /\ lastCall.tier = "other"
    /\ lastCall.k = 8

\* C15 (as stated): the retriever the questions of a batch are answered
\* with has the k and the re-ranking decision of each question's own tier.
C15_RetrievalByOwnTier ==
    (batchState[1] # "idle" /\ lastCall.path \in {"pinecone", "hit", "built"}) =>
        \A i \in Positions(1) :
            LET tier == classify_question_complexity(questions[1][i]) IN
            /\ lastCall.k = CASE tier = "simple" -> 6
                               [] tier = "medium" -> 8
                               [] tier = "complex" -> 10
            /\ lastCall.rerank = (tier = "complex")

\* C16: classify_question_complexity returns for every question one of
\* simple, medium, complex: complex exactly when the score is at least 4;
\* otherwise medium when the score is at least 2 or a medium keyword is
\* present; otherwise simple when a simple indicator is present; otherwise
\* medium.
C16_TierDecisionTable ==
    clsDone =>
        LET ql  == lower(clsQuestion)
            med == AnyIndicator(medium_complexity_indicators, ql)
            sim == AnyIndicator(simple_indicators, ql)
        IN  /\ clsTier \in {"simple", "medium", "complex"}
            /\ (clsTier = "complex") <=> (clsScore >= 4)
            /\ (clsTier = "simple") <=> (clsScore < 2 /\ ~med /\ sim)
            /\ (clsScore < 4 /\ (clsScore >= 2 \/ med)) => clsTier = "medium"
            /\ (clsScore < 2 /\ ~med /\ ~sim) => clsTier = "medium"

\* a medium keyword with a simple indicator and a score under 2: medium
C16_Witness ==
    /\ clsDone
    /\ clsScore < 2
    /\ IsSubstr(<<"covered">>, clsQuestion)
    /\ IsSubstr(<<"what", " ", "is">>, clsQuestion)
    /\ clsTier = "medium"

\* C17 (as stated): the score is the number of occurrences of the
\* high-complexity keywords, plus the number of "?" minus 1, plus the number
\* of "," divided by 2, plus the occurrences of " and " and of " or ", plus 2
\* for more than 25 words or else 1 for more than 15 words.
C17_ScoreCountsOccurrences ==
    clsDone =>
        clsScore =
            KeywordOccurrences(KeywordSet(high_complexity_indicators),
                               lower(clsQuestion))
            + (StrCount(clsQuestion, <<"?">>) - 1)
            + (StrCount(clsQuestion, <<",">>) \div 2)
            + StrCount(clsQuestion, <<" ", "and", " ">>)
            + StrCount(clsQuestion, <<" ", "or", " ">>)
            + (IF WordCount(clsQuestion) > 25 THEN 2
               ELSE IF WordCount(clsQuestion) > 15 THEN 1 ELSE 0)

\* C17 (amended): the score is the number of distinct high-complexity
\* keywords that occur in the lower-cased question, however often each
\* occurs, plus 1 more when "interaction" occurs (the list holds it twice),
\* plus the number of "?" minus 1, plus the number of "," divided by 2, plus
\* the occurrences of " and " and of " or ", plus 2 for more than 25 words or
\* else 1 for more than 15 words.
C17_ScoreCountsKeywordsPresent ==
    clsDone =>
        LET ql == lower(clsQuestion) IN
        clsScore =
            Cardinality({k \in KeywordSet(high_complexity_indicators) :
                            IsSubstr(k, ql)})
            + (IF IsSubstr(<<"interaction">>, ql) THEN 1 ELSE 0)
            + (StrCount(clsQuestion, <<"?">>) - 1)
            + (StrCount(clsQuestion, <<",">>) \div 2)
            + StrCount(clsQuestion, <<" ", "and", " ">>)
            + StrCount(clsQuestion, <<" ", "or", " ">>)
            + (IF WordCount(clsQuestion) > 25 THEN 2
               ELSE IF WordCount(clsQuestion) > 15 THEN 1 ELSE 0)

\* "compare" twice, "both" and "interaction" once, with no "?":
\* 1 + 1 + 2 - 1
C17_Witness ==
    /\ clsDone
    /\ StrCount(lower(clsQuestion), <<"compare">>) = 2
    /\ StrCount(clsQuestion, <<"both">>) = 1
    /\ StrCount(clsQuestion, <<"interaction">>) = 1
    /\ StrCount(clsQuestion, <<"?">>) = 0
    /\ clsScore = 3

\* C19: a task holds a slot of its batch's gate exactly while its chain
\* call is in flight, whether the call then returns or raises; when every
\* task of the batch has ended, all SemSize slots are free.
C19_SlotsReleasedOnEveryExit ==
    (batchState[1] # "idle"
        /\ lastCall.path \notin {"ingestion_error", "build_error"}) =>
        /\ sem[1] + Cardinality(InFlight(1)) = 3
        /\ (\A i \in Positions(1) : pc[1][i] \in {"done", "failed"}) =>
               sem[1] = 3

\* every task ended, one after its chain call raised and one after its
\* chain call returned, and the three slots are free
C19_Witness ==
    /\ batchState[1] # "idle"
    /\ rag[1] = "chain"
    /\ Len(questions[1]) >= 2
    /\ \A i \in Positions(1) : pc[1][i] \in {"done", "failed"}
    /\ \E i \in Positions(1) : pc[1][i] = "failed"
    /\ \E i \in Positions(1) : pc[1][i] = "done"
    /\ sem[1] = 3

\* C20: two questions equal after strip and lower have the same key, and
\* after an answer that is not empty was stored for one of them, a lookup
\* of the other finds that answer.
C20_EquivalentQuestionsShareKey ==
    /\ \A q1, q2 \in QuestionPool :
          lower(strip(q1)) = lower(strip(q2)) =>
              get_cache_key(q1) = get_cache_key(q2)
    /\ (lastInvoke.outcome = "computed" /\ lastInvoke.answer # <<>>) =>
          \A q2 \in QuestionPool :
              lower(strip(q2)) = lower(strip(lastInvoke.q)) =>
                  CacheLookup(query_cache, q2)
                      = [found |-> TRUE, val |-> lastInvoke.answer]

\* an answer stored for " Q" is found under "q"
C20_Witness ==
    /\ lastInvoke.outcome = "computed"
    /\ lastInvoke.q = Q2
    /\ lastInvoke.answer # <<>>
    /\ CacheLookup(query_cache, Q1) = [found |-> TRUE, val |-> lastInvoke.answer]

\* C24: the retriever get_retriever returns re-ranks exactly when the tier
\* given is complex, from the persistent store and from a cached or built
\* index alike.
C24_RerankIffComplex ==
    lastCall.path \in {"pinecone", "hit", "built"} =>
        (lastCall.rerank <=> lastCall.tier = "complex")

\* C26: two locator lists whose sorted lists differ have different
\* fingerprints, the digest being free of collisions.
C26_CanonicalFormInjective ==
    (fpDone /\ sorted(fpList) # sorted(fpOther)) => fpA # fpB

\* C27: after a resolve that missed and failed, FAISS_CACHE is what it was
\* before the call and has no entry for the fingerprint; a resolve that
\* finds no entry for its fingerprint attempts every locator.
C27_FailedResolveLeavesCache ==
    /\ lastCall.path \in {"ingestion_error", "build_error"} =>
          /\ FAISS_CACHE = lastCall.cacheBefore
          /\ lastCall.fp \notin DOMAIN FAISS_CACHE
    /\ (lastCall.consulted /\ lastCall.fp \notin DOMAIN lastCall.cacheBefore) =>
          lastCall.ingestCalls = Len(UrlsOf(lastCall.docs))

\* the index build raised with another document set's index in the cache
C27_Witness ==
    /\ lastCall.path = "build_error"
    /\ lastCall.cacheBefore # <<>>
    /\ FAISS_CACHE = lastCall.cacheBefore
    /\ lastCall.ingestCalls = Len(UrlsOf(lastCall.docs))

\* C28: an index built from the locators that yielded is stored under the
\* fingerprint of the whole document set, and a later call for the set is
\* answered with the stored index and attempts no locator.
C28_PartialIndexReused ==
    LET fp == Fingerprint(UrlsOf(lastCall.docs)) IN
    /\ lastCall.path = "built" =>
          /\ fp \in DOMAIN FAISS_CACHE
          /\ FAISS_CACHE[fp] = lastCall.handle
          /\ lastCall.handle.docs
                = {UrlsOf(lastCall.docs)[i] : i \in lastCall.yielded}
    /\ lastCall.path = "hit" =>
          /\ lastCall.handle = lastCall.cacheBefore[fp]
          /\ FAISS_CACHE = lastCall.cacheBefore
          /\ lastCall.ingestCalls = 0
          /\ lastCall.embedCalls = 0

\* a hit on an index that holds the documents of one of the two locators
C28_Witness ==
    /\ lastCall.path = "hit"
    /\ Len(UrlsOf(lastCall.docs)) = 2
    /\ UrlsOf(lastCall.docs)[1] # UrlsOf(lastCall.docs)[2]
    /\ Cardinality(lastCall.handle.docs) = 1
    /\ lastCall.handle.id > 0

\* C22: no step of api.py or flask_app.py removes a key of the index cache
\* or binds it to another handle.
C22_IndexEntriesWriteOnce ==
    [][/\ \A k \in DOMAIN FAISS_CACHE :
             k \in DOMAIN FAISS_CACHE' /\ FAISS_CACHE'[k] = FAISS_CACHE[k]
       /\ \A k \in DOMAIN flaskCache :
             k \in DOMAIN flaskCache' /\ flaskCache'[k] = flaskCache[k]]_vars

\* C30: a single-locator document set, given as a string or as a list of
\* one, whose index the generator saved and preload_faiss loaded is a hit
\* on that index with no ingestion.
C30_GeneratorKeyIsFingerprint ==
    (up /\ lastCall.consulted /\ Len(UrlsOf(lastCall.docs)) = 1
        /\ \E n \in DOMAIN lastCall.cacheBefore :
              /\ lastCall.cacheBefore[n].id = 0
              /\ lastCall.cacheBefore[n].docs = {UrlsOf(lastCall.docs)[1]}) =>
        /\ lastCall.path = "hit"
        /\ lastCall.handle = [id |-> 0, docs |-> {UrlsOf(lastCall.docs)[1]}]
        /\ lastCall.ingestCalls = 0
        /\ lastCall.embedCalls = 0

\* a one-element list whose locator stood in links.txt behind a space is
\* a hit on the generator's index
C30_Witness ==
    /\ up
    /\ lastCall.docs = DocList(<<U2>>)
    /\ lastCall.path = "hit"
    /\ lastCall.handle = [id |-> 0, docs |-> {U2}]
    /\ lastCall.ingestCalls = 0

\* C23: from every state a sequence of wrapper calls reaches, a call made
\* by invoke and the same call made by ainvoke and run to completion return
\* the same answer and leave the same cache, the same hit and total
\* counters and the same number of chain invocations.
C23_InvokeAinvokeSameCaching ==
    twin.mode # "none" => twin.mine = twin.other

\* an ainvoke answered from the cache after an earlier call stored
C23_Witness ==
    /\ twin.mode = "ainvoke"
    /\ twin.mine.answer # <<>>
    /\ twin.mine.st.hit_count = 1
    /\ twin.mine.st.total_queries = 2
    /\ twin.mine.st.chainCalls[get_cache_key(twin.q)] = 1

\* C21: a task that begins on a question whose key a task of a request for
\* another document set stored an answer under is answered from the cache,
\* with no chain call.
C21_AnswerSharedAcrossDocumentSets ==
    \A r \in crossLog : r.path = "hit"

\* C25: the chain calls in flight, counted over the requests running in the
\* process, are at most 3.
C25_ProcessWideCap ==
    Cardinality(InFlight(1)) + Cardinality(InFlight(2)) <= 3

\* C29: with every chain call returning or raising in the end, a running
\* request comes to the point where each of its tasks has taken a slot and
\* ended and process_claims has returned or raised.
C29_BatchProgress ==
    (batchState[1] = "running") ~>
        (/\ batchState[1] \in {"returned", "raised"}
         /\ \A i \in Positions(1) : pc[1][i] \in {"done", "failed"})

\* a request of more questions than slots has returned
C29_Witness ==
    /\ batchState[1] = "returned"
    /\ Len(questions[1]) = 4
    /\ rag[1] = "chain"
    /\ \A i \in Positions(1) : pc[1][i] = "done"

====
